---- MODULE Spec2Model ----
(***************************************************************************)
(* gosummarize: walk a directory tree, parse every Go file and print the   *)
(* exported declarations between FILE_START / FILE_END markers.            *)
(*                                                                         *)
(* Text is modelled as a sequence of string tokens; standard output is one *)
(* flat token stream in which "\n" ends a line.  A file path is the token  *)
(* sequence of its components, so that strings.HasSuffix is a real suffix  *)
(* test.                                                                   *)
(***************************************************************************)
EXTENDS Integers, Sequences, FiniteSets, TLC

\* args      the command line: do the flags parse, is -t set, is a directory given
\* fs        the directory tree under the root, one entry per node
\* caller    "main" for a run of the tool, "test" for TestSummarizeFile
\* pc        "main", "discover", "loop" (between files), "decls" (inside
\*           summarizeFile), "exit" (process ended), "done" (test returned)
\* files     the result of findGoFiles; fi is the index of the file in turn
\* file      file.Decls of the file being summarized; di is the next declaration
\* stdout    everything written to standard output so far
\* exitCode  the exit status, meaningful once pc = "exit"
\* attempts  history: the path and the parse result of every summarizeFile call
VARIABLES args, fs, caller, pc, files, fi, file, di, stdout, exitCode, attempts

vars == <<args, fs, caller, pc, files, fi, file, di, stdout, exitCode, attempts>>

\* Largest number of top-level declarations in a file handed to summarizeFile
\* by the test harness.
MaxDecls == 2

(***************************************************************************)
(* strings                                                                 *)
(***************************************************************************)
NL == "\n"
SP == " "
TAB == "\t"

HasSuffix(s, suffix) ==
    /\ Len(s) >= Len(suffix)
    /\ SubSeq(s, Len(s) - Len(suffix) + 1, Len(s)) = suffix

HasPrefix(s, prefix) ==
    /\ Len(s) >= Len(prefix)
    /\ SubSeq(s, 1, Len(prefix)) = prefix

TrimPrefix(s, prefix) ==
    IF HasPrefix(s, prefix) THEN SubSeq(s, Len(prefix) + 1, Len(s)) ELSE s

IsSpace(t) == t \in {NL, SP, TAB}

RECURSIVE TrimLeft(_)
TrimLeft(s) == IF s # <<>> /\ IsSpace(Head(s)) THEN TrimLeft(Tail(s)) ELSE s

RECURSIVE TrimRight(_)
TrimRight(s) ==
    IF s # <<>> /\ IsSpace(s[Len(s)]) THEN TrimRight(SubSeq(s, 1, Len(s) - 1)) ELSE s

TrimSpace(s) == TrimRight(TrimLeft(s))

GoSuffix == <<".go">>
TestSuffix == <<"_test", ".go">>

(***************************************************************************)
(* The directory tree.  Node 1 is the root given on the command line,      *)
(* nodes 2..4 are its entries in lexical order and node 5 is the entry of  *)
(* node 2.  An entry that cannot be lstat'ed or read is "broken".          *)
(***************************************************************************)
Nodes == 1 .. 5
Parent == <<0, 1, 1, 1, 2>>
Stem == <<"root", "n2", "n3", "n4", "n5">>

Absent == [kind |-> "absent", ext |-> <<>>]
Entries ==
    {Absent, [kind |-> "broken", ext |-> <<>>]}
        \cup [kind : {"dir"}, ext : {<<>>, GoSuffix}]
        \cup [kind : {"file"}, ext : {GoSuffix, TestSuffix, <<".txt">>}]

RECURSIVE Path(_, _)
Path(fsys, n) ==
    IF Parent[n] = 0
    THEN <<Stem[n]>> \o fsys[n].ext
    ELSE Path(fsys, Parent[n]) \o <<"/", Stem[n]>> \o fsys[n].ext

\* os.ReadDir's sorted names: the entries of directory n that exist.
RECURSIVE ChildrenFrom(_, _, _)
ChildrenFrom(fsys, n, c) ==
    IF c > Len(Parent) THEN <<>>
    ELSE (IF Parent[c] = n /\ fsys[c].kind # "absent" THEN <<c>> ELSE <<>>)
             \o ChildrenFrom(fsys, n, c + 1)

Children(fsys, n) == ChildrenFrom(fsys, n, 1)

\* the file systems a run can meet: an entry exists only inside a directory
FileSystems ==
    {f \in [Nodes -> Entries] :
        /\ f[1].kind # "absent"
        /\ f[1].kind = "dir" => f[1].ext = <<>>
        /\ f[1].kind = "file" => f[1].ext = GoSuffix
        /\ \A n \in Nodes \ {1} :
              f[n].kind # "absent" =>
                  /\ f[Parent[n]].kind = "dir"
                  /\ \A m \in Nodes \ {1} :
                        (Parent[m] = Parent[n] /\ m < n) => f[m].kind # "absent"}

(***************************************************************************)
(* findGoFiles                                                             *)
(***************************************************************************)
\* WalkFunc with the -t test omitted: test files are kept
WalkFunc_KeepTests(acc, fsys, n, ignoreTests) ==
    IF fsys[n].kind = "broken" THEN [acc EXCEPT !.err = TRUE]
    ELSE IF fsys[n].kind # "dir" /\ HasSuffix(Path(fsys, n), GoSuffix)
         THEN [acc EXCEPT !.files = Append(@, Path(fsys, n))]
         ELSE acc

\* WalkFunc with the IsDir test omitted: a directory named *.go is kept
WalkFunc_NoDirCheck(acc, fsys, n, ignoreTests) ==
    IF fsys[n].kind = "broken" THEN [acc EXCEPT !.err = TRUE]
    ELSE IF HasSuffix(Path(fsys, n), GoSuffix)
         THEN IF ignoreTests /\ HasSuffix(Path(fsys, n), TestSuffix)
              THEN acc
              ELSE [acc EXCEPT !.files = Append(@, Path(fsys, n))]
         ELSE acc

\* the callback handed to filepath.Walk
WalkFunc(acc, fsys, n, ignoreTests) ==
    IF fsys[n].kind = "broken" THEN [acc EXCEPT !.err = TRUE]
    ELSE IF fsys[n].kind # "dir" /\ HasSuffix(Path(fsys, n), GoSuffix)
         THEN IF ignoreTests /\ HasSuffix(Path(fsys, n), TestSuffix)
              THEN acc
              ELSE [acc EXCEPT !.files = Append(@, Path(fsys, n))]
         ELSE acc

\* filepath.Walk: the node, then its entries in lexical order, depth first;
\* the first error returned by the callback ends the walk.
RECURSIVE walk(_, _, _, _)
RECURSIVE walkEntries(_, _, _, _)
walk(acc, fsys, n, ignoreTests) ==
    LET a == WalkFunc(acc, fsys, n, ignoreTests)
    IN  IF a.err \/ fsys[n].kind # "dir" THEN a
        ELSE walkEntries(a, fsys, Children(fsys, n), ignoreTests)

walkEntries(acc, fsys, names, ignoreTests) ==
    IF names = <<>> THEN acc
    ELSE LET a == walk(acc, fsys, Head(names), ignoreTests)
         IN  IF a.err THEN a ELSE walkEntries(a, fsys, Tail(names), ignoreTests)

findGoFiles(fsys, ignoreTests) ==
    walk([files |-> <<>>, err |-> FALSE], fsys, 1, ignoreTests)

(***************************************************************************)
(* go/ast.  An expression is [op, name, fields, results]; a field is       *)
(* [names, typ, doc]; a comment group is [isNil, text]; a spec is          *)
(* [node, names, typ, values] and a declaration is                         *)
(* [node, name, doc, recv, typ, tok, specs].                               *)
(***************************************************************************)
ExportedNames == {"A", "B", "E", "F", "M", "T", "U", "X", "Y"}

\* ast.Ident.IsExported: the name begins with an upper-case letter
IsExported(name) == name \in ExportedNames

NoExpr == [op |-> "nil", name |-> "", fields |-> <<>>, results |-> <<>>]
Ident(n) == [op |-> "Ident", name |-> n, fields |-> <<>>, results |-> <<>>]
BasicLit(v) == [op |-> "BasicLit", name |-> v, fields |-> <<>>, results |-> <<>>]
NoDoc == [isNil |-> TRUE, text |-> <<>>]
Comment(t) == [isNil |-> FALSE, text |-> t]
Field(ns, ty, d) == [names |-> ns, typ |-> ty, doc |-> d]
StarExpr(x) ==
    [op |-> "StarExpr", name |-> "", fields |-> <<Field(<<>>, x, NoDoc)>>, results |-> <<>>]
StructType(fl) == [op |-> "StructType", name |-> "", fields |-> fl, results |-> <<>>]
InterfaceType(ms) == [op |-> "InterfaceType", name |-> "", fields |-> ms, results |-> <<>>]
FuncType(ps, rs) == [op |-> "FuncType", name |-> "", fields |-> ps, results |-> rs]

\* ast.CommentGroup.Text: the comment's lines, each ended by a newline
Text(doc) == doc.text

RECURSIVE JoinNames(_)
JoinNames(ns) ==
    IF ns = <<>> THEN <<>>
    ELSE IF Len(ns) = 1 THEN <<ns[1]>>
    ELSE <<ns[1], ",", SP>> \o JoinNames(Tail(ns))

\* go/printer.Fprint of an expression or type node
RECURSIVE Fprint(_)
RECURSIVE FprintParams(_)
RECURSIVE FprintMembers(_, _)
FprintParams(fl) ==
    IF fl = <<>> THEN <<>>
    ELSE JoinNames(fl[1].names)
            \o (IF fl[1].names = <<>> THEN <<>> ELSE <<SP>>)
            \o Fprint(fl[1].typ)
            \o (IF Len(fl) = 1 THEN <<>> ELSE <<",", SP>> \o FprintParams(Tail(fl)))

FprintMembers(fl, isInterface) ==
    IF fl = <<>> THEN <<>>
    ELSE <<TAB>> \o JoinNames(fl[1].names)
            \o (IF isInterface /\ fl[1].typ.op = "FuncType"
                THEN TrimPrefix(Fprint(fl[1].typ), <<"func">>)
                ELSE (IF fl[1].names = <<>> THEN <<>> ELSE <<SP>>) \o Fprint(fl[1].typ))
            \o <<NL>> \o FprintMembers(Tail(fl), isInterface)

Fprint(e) ==
    CASE e.op = "Ident" -> <<e.name>>
      [] e.op = "BasicLit" -> <<e.name>>
      [] e.op = "StarExpr" -> <<"*">> \o Fprint(e.fields[1].typ)
      [] e.op = "StructType" ->
            IF e.fields = <<>> THEN <<"struct", "{", "}">>
            ELSE <<"struct", SP, "{", NL>> \o FprintMembers(e.fields, FALSE) \o <<"}">>
      [] e.op = "InterfaceType" ->
            IF e.fields = <<>> THEN <<"interface", "{", "}">>
            ELSE <<"interface", SP, "{", NL>> \o FprintMembers(e.fields, TRUE) \o <<"}">>
      [] e.op = "FuncType" ->
            <<"func", "(">> \o FprintParams(e.fields) \o <<")">>
                \o (IF e.results = <<>> THEN <<>>
                    ELSE IF Len(e.results) = 1 /\ e.results[1].names = <<>>
                         THEN <<SP>> \o Fprint(e.results[1].typ)
                         ELSE <<SP, "(">> \o FprintParams(e.results) \o <<")">>)
      [] OTHER -> <<>>

(***************************************************************************)
(* processDeclaration: the tokens written for one top-level declaration,   *)
(* and whether the call panics.                                            *)
(***************************************************************************)
Written(toks) == [out |-> toks, panic |-> FALSE]
Panic == [out |-> <<>>, panic |-> TRUE]

\* the doc line under a declaration and the blank line that ends the block
DocAndBlank(doc) ==
    (IF doc # <<>> THEN <<"    ">> \o TrimSpace(doc) \o <<NL>> ELSE <<>>) \o <<NL>>

\* processFuncDecl with the signature's leading "func" left in place
processFuncDecl_KeepFunc(fn) ==
    IF ~IsExported(fn.name) THEN Written(<<>>)
    ELSE LET doc == IF ~fn.doc.isNil THEN Text(fn.doc) ELSE <<>>
             signature == Fprint(fn.typ)
         IN  IF fn.recv.present
             THEN IF fn.recv.list = <<>> THEN Panic
                  ELSE LET recvList == fn.recv.list[1]
                           recvType == Fprint(recvList.typ)
                           recvVarName ==
                               IF Len(recvList.names) > 0 THEN recvList.names[1] ELSE ""
                       IN  IF recvVarName # ""
                           THEN Written(<<"func", SP, "(", recvVarName, SP>> \o recvType
                                            \o <<")", SP, fn.name>> \o signature \o <<NL>>
                                            \o DocAndBlank(doc))
                           ELSE Written(<<"func", SP, "(">> \o recvType
                                            \o <<")", SP, fn.name>> \o signature \o <<NL>>
                                            \o DocAndBlank(doc))
             ELSE Written(<<"func", SP, fn.name>> \o signature \o <<NL>> \o DocAndBlank(doc))

processFuncDecl(fn) ==
    IF ~IsExported(fn.name) THEN Written(<<>>)
    ELSE LET doc == IF ~fn.doc.isNil THEN Text(fn.doc) ELSE <<>>
             signature == TrimPrefix(Fprint(fn.typ), <<"func">>)
         IN  IF fn.recv.present
             THEN IF fn.recv.list = <<>> THEN Panic
                  ELSE LET recvList == fn.recv.list[1]
                           recvType == Fprint(recvList.typ)
                           recvVarName ==
                               IF Len(recvList.names) > 0 THEN recvList.names[1] ELSE ""
                       IN  IF recvVarName # ""
                           THEN Written(<<"func", SP, "(", recvVarName, SP>> \o recvType
                                            \o <<")", SP, fn.name>> \o signature \o <<NL>>
                                            \o DocAndBlank(doc))
                           ELSE Written(<<"func", SP, "(">> \o recvType
                                            \o <<")", SP, fn.name>> \o signature \o <<NL>>
                                            \o DocAndBlank(doc))
             ELSE Written(<<"func", SP, fn.name>> \o signature \o <<NL>> \o DocAndBlank(doc))

RECURSIVE structFields(_)
\* structFields with the IsExported test omitted
structFields_NoFilter(fl) ==
    IF fl = <<>> THEN <<>>
    ELSE LET field == fl[1]
         IN  (IF Len(field.names) > 0
              THEN (IF ~field.doc.isNil /\ Text(field.doc) # <<>>
                    THEN <<TAB, "//", SP>> \o TrimSpace(Text(field.doc)) \o <<NL>>
                    ELSE <<>>)
                       \o <<TAB, field.names[1], TAB>> \o Fprint(field.typ) \o <<NL>>
              ELSE <<>>)
             \o structFields(Tail(fl))

structFields(fl) ==
    IF fl = <<>> THEN <<>>
    ELSE LET field == fl[1]
         IN  (IF Len(field.names) > 0 /\ IsExported(field.names[1])
              THEN (IF ~field.doc.isNil /\ Text(field.doc) # <<>>
                    THEN <<TAB, "//", SP>> \o TrimSpace(Text(field.doc)) \o <<NL>>
                    ELSE <<>>)
                       \o <<TAB, field.names[1], TAB>> \o Fprint(field.typ) \o <<NL>>
              ELSE <<>>)
             \o structFields(Tail(fl))

processTypeSpec(gen, s) ==
    IF ~IsExported(s.names[1]) THEN <<>>
    ELSE LET doc == IF ~gen.doc.isNil THEN Text(gen.doc) ELSE <<>>
         IN  (IF s.typ.op = "StructType"
              THEN <<"type", SP, s.names[1], SP, "struct", SP, "{", NL>>
                       \o structFields(s.typ.fields) \o <<"}", NL>>
              ELSE <<"type", SP, s.names[1], SP>> \o Fprint(s.typ) \o <<NL>>)
             \o DocAndBlank(doc)

RECURSIVE valueNames(_, _, _)
\* valueNames with every name given the first initializer of the list
valueNames_FirstValue(gen, s, i) ==
    IF i > Len(s.names) THEN <<>>
    ELSE (IF IsExported(s.names[i])
          THEN LET doc == IF ~gen.doc.isNil THEN Text(gen.doc) ELSE <<>>
                   declType == IF gen.tok = "const" THEN "const" ELSE "var"
                   typeStr == IF s.typ.op # "nil" THEN <<SP>> \o Fprint(s.typ) ELSE <<>>
                   valueStr ==
                       IF 1 <= Len(s.values)
                       THEN <<SP, "=", SP>> \o Fprint(s.values[1]) ELSE <<>>
               IN  <<declType, SP, s.names[i]>> \o typeStr \o valueStr \o <<NL>>
                       \o DocAndBlank(doc)
          ELSE <<>>)
         \o valueNames(gen, s, i + 1)

valueNames(gen, s, i) ==
    IF i > Len(s.names) THEN <<>>
    ELSE (IF IsExported(s.names[i])
          THEN LET doc == IF ~gen.doc.isNil THEN Text(gen.doc) ELSE <<>>
                   declType == IF gen.tok = "const" THEN "const" ELSE "var"
                   typeStr == IF s.typ.op # "nil" THEN <<SP>> \o Fprint(s.typ) ELSE <<>>
                   valueStr ==
                       IF i <= Len(s.values)
                       THEN <<SP, "=", SP>> \o Fprint(s.values[i]) ELSE <<>>
               IN  <<declType, SP, s.names[i]>> \o typeStr \o valueStr \o <<NL>>
                       \o DocAndBlank(doc)
          ELSE <<>>)
         \o valueNames(gen, s, i + 1)

RECURSIVE processSpecs(_, _)
processSpecs(gen, specs) ==
    IF specs = <<>> THEN <<>>
    ELSE (CASE specs[1].node = "TypeSpec" -> processTypeSpec(gen, specs[1])
            [] specs[1].node = "ValueSpec" -> valueNames(gen, specs[1], 1)
            [] OTHER -> <<>>)
         \o processSpecs(gen, Tail(specs))

processDeclaration(decl) ==
    IF decl.node = "FuncDecl" THEN processFuncDecl(decl)
    ELSE IF decl.node = "GenDecl" THEN Written(processSpecs(decl, decl.specs))
    ELSE Written(<<>>)

(***************************************************************************)
(* Source files: what parser.ParseFile makes of a file.                    *)
(***************************************************************************)
NoRecv == [present |-> FALSE, list |-> <<>>]
Recv(fl) == [present |-> TRUE, list |-> fl]
FuncDecl(n, r, d, ty) ==
    [node |-> "FuncDecl", name |-> n, doc |-> d, recv |-> r, typ |-> ty,
     tok |-> "func", specs |-> <<>>]
GenDecl(tk, d, sp) ==
    [node |-> "GenDecl", name |-> "", doc |-> d, recv |-> NoRecv, typ |-> NoExpr,
     tok |-> tk, specs |-> sp]
TypeSpec(n, ty) == [node |-> "TypeSpec", names |-> <<n>>, typ |-> ty, values |-> <<>>]
ValueSpec(ns, ty, vs) == [node |-> "ValueSpec", names |-> ns, typ |-> ty, values |-> vs]
ImportSpec == [node |-> "ImportSpec", names |-> <<>>, typ |-> NoExpr, values |-> <<>>]

ParseError == [ok |-> FALSE, decls |-> <<>>]
Parsed(ds) == [ok |-> TRUE, decls |-> ds]

DocLine == Comment(<<"doc", NL>>)
DocPara == Comment(<<"doc", NL, NL, "more", NL>>)
DocTwo == Comment(<<"doc", NL, "more", NL>>)
Sig0 == FuncType(<<>>, <<>>)
Sig1 ==
    FuncType(<<Field(<<"x", "y">>, Ident("t"), NoDoc)>>,
             <<Field(<<>>, Ident("T"), NoDoc), Field(<<>>, Ident("error"), NoDoc)>>)

\* receivers: none, (s *T), (T), (s t), (*t), (a, b T), and the empty list "()"
\* that the parser accepts and the type checker rejects
Receivers ==
    {NoRecv, Recv(<<>>),
     Recv(<<Field(<<"s">>, StarExpr(Ident("T")), NoDoc)>>),
     Recv(<<Field(<<>>, Ident("T"), NoDoc)>>),
     Recv(<<Field(<<"s">>, Ident("t"), NoDoc)>>),
     Recv(<<Field(<<>>, StarExpr(Ident("t")), NoDoc)>>),
     Recv(<<Field(<<"a", "b">>, Ident("T"), NoDoc)>>)}

FuncDecls ==
    {FuncDecl(n, r, NoDoc, ty) : n \in {"M", "m"}, r \in Receivers, ty \in {Sig0, Sig1}}
        \cup {FuncDecl("F", NoRecv, d, Sig0) : d \in {DocLine, DocPara, DocTwo, Comment(<<>>)}}

StructTypes ==
    {StructType(<<>>),
     StructType(<<Field(<<"A">>, Ident("string"), DocLine),
                  Field(<<"b">>, Ident("int"), NoDoc)>>),
     StructType(<<Field(<<"A", "B">>, Ident("int"), NoDoc)>>),
     StructType(<<Field(<<"a", "B">>, Ident("int"), NoDoc)>>),
     StructType(<<Field(<<"A", "b">>, Ident("int"), NoDoc)>>),
     StructType(<<Field(<<>>, Ident("E"), NoDoc), Field(<<>>, StarExpr(Ident("e")), NoDoc)>>),
     StructType(<<Field(<<"A">>, StructType(<<Field(<<"b">>, Ident("int"), NoDoc)>>), NoDoc)>>),
     StructType(<<Field(<<"A">>, Sig0, DocPara), Field(<<"B">>, Ident("t"), NoDoc)>>)}

OtherTypes ==
    {Ident("int"), StarExpr(Ident("t")),
     InterfaceType(<<Field(<<"M">>, Sig0, NoDoc), Field(<<"m">>, Sig1, NoDoc)>>),
     Sig1}

TypeDecls ==
    {GenDecl("type", d, <<TypeSpec(n, ty)>>) :
        d \in {NoDoc, DocLine}, n \in {"T", "t"}, ty \in StructTypes \cup OtherTypes}
        \cup {GenDecl("type", DocLine,
                      <<TypeSpec("t", Ident("int")), TypeSpec("T", Ident("t")),
                        TypeSpec("U", StructType(<<>>))>>)}

ValueSpecs ==
    {ValueSpec(<<"X">>, NoExpr, <<BasicLit("1")>>),
     ValueSpec(<<"x">>, Ident("int"), <<BasicLit("1")>>),
     ValueSpec(<<"X">>, Ident("t"), <<>>),
     ValueSpec(<<"X", "y">>, NoExpr, <<BasicLit("1"), BasicLit("2")>>),
     ValueSpec(<<"x", "Y">>, Ident("int"), <<BasicLit("1"), BasicLit("2")>>),
     ValueSpec(<<"X", "Y">>, NoExpr, <<Ident("f")>>)}

ValueDecls ==
    {GenDecl(tk, d, <<sp>>) : tk \in {"const", "var"}, d \in {NoDoc, DocPara}, sp \in ValueSpecs}
        \cup {GenDecl("const", DocLine,
                      <<ValueSpec(<<"X">>, NoExpr, <<Ident("iota")>>),
                        ValueSpec(<<"Y">>, NoExpr, <<>>),
                        ValueSpec(<<"x">>, NoExpr, <<>>)>>),
              GenDecl("import", NoDoc, <<ImportSpec>>)}

Decls == FuncDecls \cup TypeDecls \cup ValueDecls

\* declarations that are combined into files of several declarations
CoreDecls ==
    {FuncDecl("F", NoRecv, DocLine, Sig0),
     FuncDecl("m", NoRecv, NoDoc, Sig0),
     FuncDecl("M", Recv(<<Field(<<"s">>, StarExpr(Ident("T")), NoDoc)>>), NoDoc, Sig1),
     FuncDecl("M", Recv(<<>>), NoDoc, Sig0),
     FuncDecl("F", Recv(<<Field(<<>>, Ident("t"), NoDoc)>>), NoDoc, Sig0),
     GenDecl("type", NoDoc, <<TypeSpec("t", Ident("int"))>>),
     GenDecl("type", DocLine,
             <<TypeSpec("T", StructType(<<Field(<<"A">>, Ident("t"), NoDoc),
                                          Field(<<"b">>, Ident("int"), NoDoc)>>))>>),
     GenDecl("var", NoDoc, <<ValueSpec(<<"X", "y">>, NoExpr, <<BasicLit("1"), BasicLit("2")>>)>>)}

RECURSIVE SeqsUpTo(_, _)
SeqsUpTo(S, n) ==
    IF n = 0 THEN {<<>>}
    ELSE LET shorter == SeqsUpTo(S, n - 1)
         IN  shorter \cup {Append(q, d) : q \in shorter, d \in S}

\* the files the test harness hands to summarizeFile
TestFiles ==
    {ParseError} \cup {Parsed(<<d>>) : d \in Decls}
        \cup {Parsed(q) : q \in SeqsUpTo(CoreDecls, MaxDecls)}

\* the files met in a run over a directory
RunFiles ==
    {ParseError, Parsed(<<>>),
     Parsed(<<FuncDecl("F", NoRecv, DocLine, Sig0)>>),
     Parsed(<<FuncDecl("M", Recv(<<>>), NoDoc, Sig0)>>)}

(***************************************************************************)
(* The run                                                                 *)
(***************************************************************************)
FileStart(path) == <<"<<<FILE_START>>>", SP>> \o path \o <<NL, NL>>
FileEnd(path) == <<"<<<FILE_END>>>", SP>> \o path \o <<NL, NL>>
ParseErrorLine(path) == <<"error parsing", SP>> \o path \o <<":", SP, "syntax error", NL>>
UsageLine == <<"Usage: gosummarize [-t] <directory>", NL>>
DiscoveryErrorLine == <<"Error finding Go files:", SP, "lstat", NL>>
NoFilesLine == <<"No Go files found in the specified directory or its subdirectories", NL>>

ArgVectors == [flagsOK : BOOLEAN, t : BOOLEAN, dir : BOOLEAN]

Init ==
    /\ args \in ArgVectors
    /\ fs \in FileSystems
    /\ caller = "main"
    /\ pc = "main"
    /\ files = <<>>
    /\ fi = 1
    /\ file = <<>>
    /\ di = 1
    /\ stdout = <<>>
    /\ exitCode = 0
    /\ attempts = <<>>

\* TestSummarizeFile calls summarizeFile on one file
TestFS == [n \in Nodes |-> IF n = 1 THEN [kind |-> "file", ext |-> GoSuffix] ELSE Absent]

InitFile ==
    /\ args = [flagsOK |-> TRUE, t |-> FALSE, dir |-> FALSE]
    /\ fs = TestFS
    /\ caller = "test"
    /\ pc = "loop"
    /\ files = <<Path(TestFS, 1)>>
    /\ fi = 1
    /\ file = <<>>
    /\ di = 1
    /\ stdout = <<>>
    /\ exitCode = 0
    /\ attempts = <<>>

Exit(code) == pc' = "exit" /\ exitCode' = code

\* main: flag.Parse and the positional argument
MainArgs ==
    /\ pc = "main"
    /\ IF ~args.flagsOK
       THEN Exit(2) /\ UNCHANGED stdout
       ELSE IF ~args.dir
            THEN Exit(1) /\ stdout' = stdout \o UsageLine
            ELSE pc' = "discover" /\ UNCHANGED <<stdout, exitCode>>
    /\ UNCHANGED <<args, fs, caller, files, fi, file, di, attempts>>

\* main: findGoFiles and the two early exits
MainDiscover ==
    /\ pc = "discover"
    /\ LET r == findGoFiles(fs, args.t)
       IN  IF r.err
           THEN Exit(1) /\ stdout' = stdout \o DiscoveryErrorLine /\ UNCHANGED files
           ELSE IF Len(r.files) = 0
                THEN Exit(0) /\ stdout' = stdout \o NoFilesLine /\ UNCHANGED files
                ELSE /\ files' = r.files
                     /\ pc' = "loop"
                     /\ UNCHANGED <<stdout, exitCode>>
    /\ UNCHANGED <<args, fs, caller, fi, file, di, attempts>>

\* summarizeFile up to the start marker; on a parse error the caller reports
\* it and goes on with the next file
SummarizeBegin(src) ==
    /\ pc = "loop"
    /\ fi <= Len(files)
    /\ attempts' = Append(attempts, [path |-> files[fi], src |-> src])
    /\ IF ~src.ok
       THEN /\ stdout' = IF caller = "main" THEN stdout \o ParseErrorLine(files[fi])
                         ELSE stdout
            /\ fi' = fi + 1
            /\ UNCHANGED <<pc, file, di>>
       ELSE /\ stdout' = stdout \o FileStart(files[fi])
            /\ file' = src.decls
            /\ di' = 1
            /\ pc' = "decls"
            /\ UNCHANGED fi
    /\ UNCHANGED <<args, fs, caller, files, exitCode>>

\* one iteration of summarizeFile's loop over file.Decls
ProcessDecl ==
    /\ pc = "decls"
    /\ di <= Len(file)
    /\ LET r == processDeclaration(file[di])
       IN  IF r.panic
           THEN Exit(2) /\ UNCHANGED <<stdout, di>>
           ELSE /\ stdout' = stdout \o r.out
                /\ di' = di + 1
                /\ UNCHANGED <<pc, exitCode>>
    /\ UNCHANGED <<args, fs, caller, files, fi, file, attempts>>

\* summarizeFile: the end marker and the return
SummarizeEnd ==
    /\ pc = "decls"
    /\ di > Len(file)
    /\ stdout' = stdout \o FileEnd(files[fi])
    /\ fi' = fi + 1
    /\ pc' = "loop"
    /\ UNCHANGED <<args, fs, caller, files, file, di, exitCode, attempts>>

\* main returns after the last file
MainReturn ==
    /\ pc = "loop"
    /\ caller = "main"
    /\ fi > Len(files)
    /\ Exit(0)
    /\ UNCHANGED <<args, fs, caller, files, fi, file, di, stdout, attempts>>

\* the test goes on to inspect the captured output
TestReturn ==
    /\ pc = "loop"
    /\ caller = "test"
    /\ fi > Len(files)
    /\ pc' = "done"
    /\ UNCHANGED <<args, fs, caller, files, fi, file, di, stdout, exitCode, attempts>>

Next ==
    \/ MainArgs
    \/ MainDiscover
    \/ \E src \in RunFiles : SummarizeBegin(src)
    \/ ProcessDecl
    \/ SummarizeEnd
    \/ MainReturn

Spec == Init /\ [][Next]_vars

NextFile ==
    \/ \E src \in TestFiles : SummarizeBegin(src)
    \/ ProcessDecl
    \/ SummarizeEnd
    \/ TestReturn

SpecFile == InitFile /\ [][NextFile]_vars

(***************************************************************************)
(* Reading the output back: lines, marker lines, declaration blocks.       *)
(***************************************************************************)
Range(q) == {q[i] : i \in DOMAIN q}

RECURSIVE SplitLines(_, _)
SplitLines(s, cur) ==
    IF s = <<>> THEN (IF cur = <<>> THEN <<>> ELSE <<cur>>)
    ELSE IF Head(s) = NL THEN <<cur>> \o SplitLines(Tail(s), <<>>)
    ELSE SplitLines(Tail(s), Append(cur, Head(s)))

Lines(s) == SplitLines(s, <<>>)

IsStartLine(l) == HasPrefix(l, <<"<<<FILE_START>>>", SP>>)
IsEndLine(l) == HasPrefix(l, <<"<<<FILE_END>>>", SP>>)
IsMarkerLine(l) == IsStartLine(l) \/ IsEndLine(l)
MarkerPath(l) == SubSeq(l, 3, Len(l))
IsErrorLineFor(l, path) == HasPrefix(l, <<"error parsing", SP>> \o path \o <<":">>)

\* the marker lines of the output, in order
Markers(s) == SelectSeq(Lines(s), IsMarkerLine)
StartPaths(s) ==
    LET st == SelectSeq(Lines(s), IsStartLine)
    IN  [i \in 1 .. Len(st) |-> MarkerPath(st[i])]

CountLines(s, path, kind) ==
    Cardinality({i \in DOMAIN Lines(s) :
        CASE kind = "start" -> Lines(s)[i] = <<"<<<FILE_START>>>", SP>> \o path
          [] kind = "end" -> Lines(s)[i] = <<"<<<FILE_END>>>", SP>> \o path
          [] OTHER -> IsErrorLineFor(Lines(s)[i], path)})

Braces(l) ==
    Cardinality({i \in DOMAIN l : l[i] = "{"}) - Cardinality({i \in DOMAIN l : l[i] = "}"})

\* the first line of a declaration block
IsHeadLine(l) == Len(l) >= 3 /\ l[1] \in {"func", "type", "const", "var"} /\ l[2] = SP
IsMethodLine(l) == IsHeadLine(l) /\ l[1] = "func" /\ l[3] = "("
ClosingParen(l) == CHOOSE i \in DOMAIN l : l[i] = ")" /\ \A j \in 1 .. (i - 1) : l[j] # ")"
HeadName(l) ==
    IF IsMethodLine(l)
    THEN IF \E i \in DOMAIN l : l[i] = ")" /\ i + 2 <= Len(l)
         THEN l[ClosingParen(l) + 2] ELSE ""
    ELSE l[3]
IsStructOpen(l) == Len(l) = 7 /\ l[1] = "type" /\ SubSeq(l, 4, 7) = <<SP, "struct", SP, "{">>
IsFieldLine(l) == Len(l) >= 2 /\ l[1] = TAB /\ l[2] # "//"

\* the names the output declares: the name of every block's first line and,
\* inside a rendered struct, the name on every field line of that struct
RECURSIVE Scan(_, _, _, _)
Scan(ls, i, depth, inStruct) ==
    IF i > Len(ls) THEN <<>>
    ELSE LET l == ls[i]
             here ==
                 IF depth = 0 /\ IsHeadLine(l)
                 THEN <<[role |-> "decl", name |-> HeadName(l), line |-> i]>>
                 ELSE IF depth = 1 /\ inStruct /\ IsFieldLine(l)
                      THEN <<[role |-> "field", name |-> l[2], line |-> i]>>
                      ELSE <<>>
         IN  here \o Scan(ls, i + 1, depth + Braces(l),
                          IF depth = 0 THEN IsStructOpen(l) ELSE inStruct)

Rendered(s) == Scan(Lines(s), 1, 0, FALSE)
IsDeclEntry(r) == r.role = "decl"
IsFieldEntry(r) == r.role = "field"
RenderedDecls(s) == SelectSeq(Rendered(s), IsDeclEntry)
RenderedFields(s) == SelectSeq(Rendered(s), IsFieldEntry)
NamesOf(rs) == [i \in 1 .. Len(rs) |-> rs[i].name]

\* the exported top-level names of a file, in source order
RECURSIVE SpecsExported(_)
SpecsExported(specs) ==
    IF specs = <<>> THEN <<>>
    ELSE SelectSeq(specs[1].names, IsExported) \o SpecsExported(Tail(specs))

RECURSIVE DeclsExported(_)
DeclsExported(ds) ==
    IF ds = <<>> THEN <<>>
    ELSE (IF ds[1].node = "FuncDecl"
          THEN (IF IsExported(ds[1].name) THEN <<ds[1].name>> ELSE <<>>)
          ELSE SpecsExported(ds[1].specs))
         \o DeclsExported(Tail(ds))

\* every name a file declares: top-level names and struct fields at any depth
RECURSIVE FieldNames(_)
FieldNames(e) ==
    IF e.op = "StructType"
    THEN UNION {Range(e.fields[i].names) \cup FieldNames(e.fields[i].typ) : i \in DOMAIN e.fields}
    ELSE IF e.op = "StarExpr" THEN FieldNames(e.fields[1].typ)
    ELSE {}

DeclaredBy(d) ==
    IF d.node = "FuncDecl" THEN {d.name}
    ELSE UNION {Range(d.specs[i].names) \cup FieldNames(d.specs[i].typ) : i \in DOMAIN d.specs}

UnexportedDeclared(ds) ==
    {n \in UNION {DeclaredBy(ds[i]) : i \in DOMAIN ds} : ~IsExported(n)}

\* the declarations summarizeFile has rendered so far
Processed == SubSeq(file, 1, di - 1)
Ended == pc \in {"exit", "done"}
ParsedOK == attempts # <<>> /\ attempts[Len(attempts)].src.ok

(***************************************************************************)
(* C1                                                                      *)
(***************************************************************************)
\* C1 (as claimed): no unexported name that the source file declares - a
\* function, method, type, const or var name, or a struct field name - occurs
\* anywhere in the text written for the file.
C1_NoUnexportedNameAnywhere ==
    \A i \in DOMAIN stdout : stdout[i] \notin UnexportedDeclared(file)

\* C1 (amended): the name on the first line of every declaration block and the
\* name on every field line of a rendered struct is exported; the pretty-printed
\* type, signature and value text is reproduced whole and may hold unexported
\* identifiers.
C1_DeclaredNamesExported ==
    \A i \in DOMAIN Rendered(stdout) : IsExported(Rendered(stdout)[i].name)

\* a finished summary of a file that mixes exported and unexported names and
\* rendered a block and a struct field
C1_Witness ==
    /\ pc = "done"
    /\ UnexportedDeclared(file) # {}
    /\ RenderedDecls(stdout) # <<>>
    /\ RenderedFields(stdout) # <<>>

(***************************************************************************)
(* C2                                                                      *)
(***************************************************************************)
\* C2: when the run has ended, every attempted file that failed to parse has
\* no FILE_START and no FILE_END line and exactly one error line, and every
\* attempted file that parsed has exactly one FILE_START and one FILE_END line.
C2_ParseFailureIsolated ==
    (Ended /\ caller = "main") =>
        \A i \in DOMAIN attempts :
            LET p == attempts[i].path
            IN  IF attempts[i].src.ok
                THEN CountLines(stdout, p, "start") = 1 /\ CountLines(stdout, p, "end") = 1
                ELSE /\ CountLines(stdout, p, "start") = 0
                     /\ CountLines(stdout, p, "end") = 0
                     /\ CountLines(stdout, p, "error") = 1

(***************************************************************************)
(* C3                                                                      *)
(***************************************************************************)
\* C3: the marker lines of the output alternate FILE_START p, FILE_END p; once
\* the run has ended every FILE_START has its FILE_END; and every declaration
\* block lies between a FILE_START and its FILE_END.
C3_MarkersPaired ==
    LET ms == Markers(stdout)
        ls == Lines(stdout)
        before(k) == Cardinality({j \in 1 .. (k - 1) : IsMarkerLine(ls[j])})
    IN  /\ \A k \in DOMAIN ms :
              IF k % 2 = 1 THEN IsStartLine(ms[k])
              ELSE IsEndLine(ms[k]) /\ MarkerPath(ms[k]) = MarkerPath(ms[k - 1])
        /\ \A k \in DOMAIN ls : IsHeadLine(ls[k]) => before(k) % 2 = 1
        /\ Ended => Len(ms) % 2 = 0

(***************************************************************************)
(* C4                                                                      *)
(***************************************************************************)
\* C4: when summarizeFile is over for a file that parsed, the names of the
\* declaration blocks in the output are exactly the exported top-level names
\* of the file, once each, in source order.
C4_OneBlockPerExportedName ==
    (Ended /\ caller = "test" /\ ParsedOK) =>
        NamesOf(RenderedDecls(stdout)) = DeclsExported(file)

(***************************************************************************)
(* C5                                                                      *)
(***************************************************************************)
ExportedEmbedded(e) ==
    \/ e.op = "Ident" /\ IsExported(e.name)
    \/ e.op = "StarExpr" /\ e.fields[1].typ.op = "Ident" /\ IsExported(e.fields[1].typ.name)

RECURSIVE ExportedFieldCount(_)
ExportedFieldCount(fl) ==
    IF fl = <<>> THEN 0
    ELSE (IF fl[1].names = <<>>
          THEN (IF ExportedEmbedded(fl[1].typ) THEN 1 ELSE 0)
          ELSE Len(SelectSeq(fl[1].names, IsExported)))
         + ExportedFieldCount(Tail(fl))

IsExportedStructDecl(d) ==
    /\ d.node = "GenDecl"
    /\ Len(d.specs) = 1
    /\ d.specs[1].node = "TypeSpec"
    /\ IsExported(d.specs[1].names[1])
    /\ d.specs[1].typ.op = "StructType"

\* C5: for a file whose one declaration is an exported struct type, the number
\* of field lines rendered equals the number of exported fields of the struct
\* (every exported name of a shared declaration, and every exported embedded
\* field), and each rendered field name is exported.
C5_FieldLinesMatchExportedFields ==
    (pc = "done" /\ Len(file) = 1 /\ IsExportedStructDecl(file[1])) =>
        /\ Len(RenderedFields(stdout)) = ExportedFieldCount(file[1].specs[1].typ.fields)
        /\ \A i \in DOMAIN RenderedFields(stdout) : IsExported(RenderedFields(stdout)[i].name)

(***************************************************************************)
(* C6                                                                      *)
(***************************************************************************)
IsTestPath(p) == HasSuffix(p, TestSuffix)

\* C6 (as claimed): with -t, the files discovered are a strict subset of the
\* files discovered without it.
C6_StrictSubset ==
    (pc = "loop" /\ args.t) =>
        /\ files = findGoFiles(fs, TRUE).files
        /\ Range(files) \subseteq Range(findGoFiles(fs, FALSE).files)
        /\ Range(files) # Range(findGoFiles(fs, FALSE).files)

\* C6 (amended): findGoFiles(root, true) returns findGoFiles(root, false)
\* without the paths ending in _test.go, in the same order - a subset that is
\* strict exactly when some discovered file ends in _test.go; every path
\* returned ends in .go; and main loops over the result for its -t flag.
C6_SubsetWithoutTests ==
    LET withT == findGoFiles(fs, TRUE).files
        withoutT == findGoFiles(fs, FALSE).files
        notTest(p) == ~IsTestPath(p)
    IN  /\ withT = SelectSeq(withoutT, notTest)
        /\ Range(withoutT) \ Range(withT) = {p \in Range(withoutT) : IsTestPath(p)}
        /\ (Range(withT) # Range(withoutT)) <=> (\E p \in Range(withoutT) : IsTestPath(p))
        /\ \A p \in Range(withoutT) : HasSuffix(p, GoSuffix)
        /\ pc = "loop" => files = IF args.t THEN withT ELSE withoutT

\* discovery with -t over a tree that holds a test file and another Go file
C6_Witness ==
    /\ pc = "loop"
    /\ args.t
    /\ files # <<>>
    /\ \E p \in Range(findGoFiles(fs, FALSE).files) : IsTestPath(p)

(***************************************************************************)
(* C7                                                                      *)
(***************************************************************************)
RECURSIVE Reachable(_, _)
Reachable(fsys, n) ==
    /\ fsys[n].kind # "absent"
    /\ Parent[n] # 0 => (fsys[Parent[n]].kind = "dir" /\ Reachable(fsys, Parent[n]))

Candidates(fsys, ignoreTests) ==
    {Path(fsys, n) : n \in {m \in Nodes :
        /\ Reachable(fsys, m)
        /\ fsys[m].kind = "file"
        /\ HasSuffix(fsys[m].ext, GoSuffix)
        /\ ~(ignoreTests /\ HasSuffix(fsys[m].ext, TestSuffix))}}

\* C7: after a discovery that did not fail, the files main loops over are
\* exactly the entries at any depth under the root that are not directories
\* and whose name ends in .go (less the _test.go ones with -t), each once; and
\* the "no Go files" exit is taken only when there is no such entry.
C7_WholeSubtree ==
    /\ pc \in {"loop", "decls"} =>
          /\ Range(files) = Candidates(fs, args.t)
          /\ Cardinality(Range(files)) = Len(files)
    /\ (pc = "exit" /\ stdout = NoFilesLine) => Candidates(fs, args.t) = {}

\* the only Go file lies in a subdirectory, and that directory's name ends in .go
C7_Witness ==
    /\ pc = "loop"
    /\ fs[2] = [kind |-> "dir", ext |-> GoSuffix]
    /\ fs[3].kind = "absent"
    /\ files = <<Path(fs, 5)>>

(***************************************************************************)
(* C8                                                                      *)
(***************************************************************************)
\* C8: nothing is summarized before discovery is over; the files attempted so
\* far are the first files of the discovery result, in order; the FILE_START
\* lines are those of the attempted files that parsed, in order; and when the
\* run has ended every discovered file has been attempted.
C8_DiscoveryOrder ==
    LET tried == [i \in DOMAIN attempts |-> attempts[i].path]
        okAttempt(a) == a.src.ok
        parsed == SelectSeq(attempts, okAttempt)
    IN  /\ pc \in {"main", "discover"} => (attempts = <<>> /\ Markers(stdout) = <<>>)
        /\ Len(attempts) <= Len(files)
        /\ tried = SubSeq(files, 1, Len(attempts))
        /\ StartPaths(stdout) = [i \in DOMAIN parsed |-> parsed[i].path]
        /\ (pc = "exit" /\ files # <<>>) => Len(attempts) = Len(files)

(***************************************************************************)
(* C9                                                                      *)
(***************************************************************************)
\* C9: for a command line whose flags parse, the run ends with a non-zero
\* status exactly when the directory argument is missing or discovery fails,
\* and then no marker line has been written.
C9_ExitStatus ==
    (pc = "exit" /\ caller = "main" /\ args.flagsOK) =>
        /\ (exitCode # 0) <=> (~args.dir \/ findGoFiles(fs, args.t).err)
        /\ exitCode # 0 => Markers(stdout) = <<>>

(***************************************************************************)
(* C10                                                                     *)
(***************************************************************************)
IsRenderedMethod(d) == d.node = "FuncDecl" /\ IsExported(d.name) /\ d.recv.present

MethodHead(d) ==
    LET r == d.recv.list[1]
    IN  <<"func", SP, "(">>
            \o (IF r.names # <<>> THEN <<r.names[1], SP>> ELSE <<>>)
            \o Fprint(r.typ) \o <<")", SP, d.name, "(">>

ValueLine(gen, s, i) ==
    <<gen.tok, SP, s.names[i]>>
        \o (IF s.typ.op # "nil" THEN <<SP>> \o Fprint(s.typ) ELSE <<>>)
        \o (IF i <= Len(s.values) THEN <<SP, "=", SP>> \o Fprint(s.values[i]) ELSE <<>>)

RECURSIVE ValueLinesOfSpec(_, _, _)
ValueLinesOfSpec(gen, s, i) ==
    IF i > Len(s.names) THEN <<>>
    ELSE (IF IsExported(s.names[i])
          THEN <<[head |-> ValueLine(gen, s, i), doc |-> gen.doc]>> ELSE <<>>)
         \o ValueLinesOfSpec(gen, s, i + 1)

RECURSIVE ValueLinesOfSpecs(_, _)
ValueLinesOfSpecs(gen, specs) ==
    IF specs = <<>> THEN <<>>
    ELSE (IF specs[1].node = "ValueSpec" THEN ValueLinesOfSpec(gen, specs[1], 1) ELSE <<>>)
         \o ValueLinesOfSpecs(gen, Tail(specs))

RECURSIVE ValueLinesOf(_)
ValueLinesOf(ds) ==
    IF ds = <<>> THEN <<>>
    ELSE (IF ds[1].node = "GenDecl" /\ ds[1].tok \in {"const", "var"}
          THEN ValueLinesOfSpecs(ds[1], ds[1].specs) ELSE <<>>)
         \o ValueLinesOf(Tail(ds))

IsValueDecl(d) == d.node = "GenDecl" /\ d.tok \in {"const", "var"}
HasDocText(c) == ~c.isNil /\ Text(c) # <<>>

\* C11: the const and var lines of the output are, in order, one line per
\* exported name of the const and var declarations rendered so far, each line
\* being "<const|var> <Name>", then " <type>" exactly when the spec states a
\* type, then " = <value>" exactly when the initializer list has an entry at
\* the name's index; unexported names give no line; and the line after each
\* is the group's doc comment, indented, when the group has one, and blank
\* when it has none.
C11_ValueLines ==
    LET ls == Lines(stdout)
        IsValueEntry(r) == ls[r.line][1] \in {"const", "var"}
        vs == SelectSeq(RenderedDecls(stdout), IsValueEntry)
        ex == ValueLinesOf(Processed)
    IN  /\ Len(vs) = Len(ex)
        /\ \A k \in DOMAIN vs :
              /\ k \in DOMAIN ex
              /\ ls[vs[k].line] = ex[k].head
              /\ vs[k].line + 1 <= Len(ls)
              /\ IF HasDocText(ex[k].doc)
                 THEN HasPrefix(ls[vs[k].line + 1],
                                <<"    ", Head(TrimSpace(Text(ex[k].doc)))>>)
                 ELSE ls[vs[k].line + 1] = <<>>

\* a documented group has been rendered in which two exported names share a
\* spec whose initializer list is shorter than its name list, so that one
\* line has a value clause and the other has none, both under the group's doc
C11_Witness ==
    /\ pc = "done"
    /\ \E k \in DOMAIN Processed :
          /\ IsValueDecl(Processed[k])
          /\ HasDocText(Processed[k].doc)
          /\ \E j \in DOMAIN Processed[k].specs :
                LET s == Processed[k].specs[j]
                IN  /\ s.node = "ValueSpec"
                    /\ Len(SelectSeq(s.names, IsExported)) = 2
                    /\ Len(s.values) = 1
    /\ \E i \in DOMAIN Lines(stdout) :
          /\ Lines(stdout)[i] = <<"var", SP, "Y">>
          /\ i + 1 <= Len(Lines(stdout))
          /\ HasPrefix(Lines(stdout)[i + 1], <<"    ", "doc">>)

(***************************************************************************)
(* C12                                                                     *)
(***************************************************************************)
\* reads lines i.. of a file's body as declaration blocks: st is "between"
\* before a block's first line, "sig" inside a signature or type text whose
\* braces are still open (depth of them), "afterSig" once it is complete and
\* "afterDoc" after the doc line
RECURSIVE Blocks(_, _, _, _)
Blocks(ls, i, st, depth) ==
    IF i > Len(ls) THEN st = "between"
    ELSE LET l == ls[i]
             d == depth + Braces(l)
         IN  CASE st = "between" ->
                    /\ IsHeadLine(l)
                    /\ Blocks(ls, i + 1, IF d > 0 THEN "sig" ELSE "afterSig", d)
               [] st = "sig" ->
                    /\ l # <<>>
                    /\ Blocks(ls, i + 1, IF d > 0 THEN "sig" ELSE "afterSig", d)
               [] st = "afterSig" ->
                    IF l = <<>> THEN Blocks(ls, i + 1, "between", 0)
                    ELSE /\ l[1] = "    "
                         /\ Blocks(ls, i + 1, "afterDoc", 0)
               [] OTHER ->
                    /\ l = <<>>
                    /\ Blocks(ls, i + 1, "between", 0)

\* the lines between a file's start marker (and the blank line after it) and
\* its end marker
Body(ls) == SubSeq(ls, 3, Len(ls) - 2)

\* C12: when a file has been summarized, the lines between its markers are a
\* sequence of blocks, each one the signature, type or value line(s), then at
\* most one line that is the indented doc, then exactly one blank line, with
\* no blank line inside a block.
C12_BlockStructure ==
    (pc = "done" /\ ParsedOK) =>
        LET ls == Lines(stdout)
        IN  /\ Len(ls) >= 4
            /\ IsStartLine(ls[1]) /\ ls[2] = <<>>
            /\ IsEndLine(ls[Len(ls) - 1]) /\ ls[Len(ls)] = <<>>
            /\ Blocks(Body(ls), 1, "between", 0)

(***************************************************************************)
(* C13                                                                     *)
(***************************************************************************)
IsMethod(d) == d.node = "FuncDecl" /\ d.recv.present
IsExportedMethod(d) == IsMethod(d) /\ IsExported(d.name)

\* C13: when summarizeFile has ended on a file that parses, the method lines
\* of the output are, in order, those of the file's methods with an exported
\* name and of no other method: each such method is rendered with its
\* receiver type text, whether or not that type is exported, and no method
\* with an unexported name is rendered, whatever its receiver type.
C13_MethodsByNameOnly ==
    (Ended /\ ParsedOK) =>
        LET ls == SelectSeq(Lines(stdout), IsMethodLine)
            ms == SelectSeq(file, IsExportedMethod)
        IN  /\ Len(ls) = Len(ms)
            /\ \A k \in DOMAIN ls :
                  /\ k \in DOMAIN ms
                  /\ HeadName(ls[k]) = ms[k].name
                  /\ ms[k].recv.list # <<>> => HasPrefix(ls[k], MethodHead(ms[k]))

====
